---- MODULE Spec2Model ----
(***************************************************************************)
(* Model of the blog application's request handlers                        *)
(* (blogicum/blog/views.py, blogicum/blog/forms.py).                       *)
(*                                                                         *)
(* The data store holds Users, Categories, Posts and Comments.  Every      *)
(* handler of views.py is one action; what a handler answers and what it   *)
(* writes is computed by an operator <handler>_result, so that a property  *)
(* can speak about the answer to every request in every reachable state.   *)
(***************************************************************************)
EXTENDS Integers, Sequences, FiniteSets, TLC

(***************************************************************************)
(* Bounds of the model and constants of the program.                       *)
(***************************************************************************)
\* views.py:14
PAGINATOR_PAGES == 10

\* The latest instant the clock reaches.
MaxTime == 2

\* The largest result set handed to the paginator in SpecPage.
MaxCount == 21

\* Post ids the auto-increment counter of Post runs over.
PostIds == {1, 2}

\* Comment ids the auto-increment counter of Comments runs over.
CommentIds == {1, 2}

Users == {"u1", "u2"}

\* request.user of a request without a session (AnonymousUser).
Anonymous == "anonymous"

Viewers == Users \cup {Anonymous}

\* Values of User.username (unique per user).
Names == {"ann", "bob"}

\* Usernames a request may name: the last one matches no row.
ReqNames == Names \cup {"nobody"}

\* The rows of the Category table, named by slug; no handler writes them.
Categories == {"travel", "drafts"}

\* Category.is_published of the row with slug c.
category_is_published(c) == c = "travel"

\* Slugs a request may name: the two rows and one that matches no row.
Slugs == Categories \cup {"nosuch"}

\* request.method
Methods == {"GET", "POST", "PUT"}

\* request.POST of a request that carries no form data.
Empty == [empty |-> TRUE]

\* Form data for PostForm: the fields that decide visibility (the last one
\* names no category), and payloads to which a client added an author field.
PostPayloads ==
    { [category |-> f[1], pub_date |-> f[2], is_published |-> f[3]] :
        f \in { <<"travel", 1, TRUE>>, <<"travel", 2, TRUE>>,
                <<"travel", 1, FALSE>>, <<"drafts", 1, TRUE>>,
                <<"nosuch", 1, TRUE>> } }
    \cup
    { [category |-> "travel", pub_date |-> 1, is_published |-> TRUE,
       author |-> a] : a \in Users }

\* Form data for CommentForm: the text, and payloads to which a client added
\* author and post fields.
CommentPayloads ==
    [text : {"", "first", "second"}]
    \cup
    { [text |-> "first", author |-> "u1", post |-> 2],
      [text |-> "second", author |-> "u2", post |-> 1] }

\* Form data for UserForm.
UserPayloads == [username : Names \cup {""}]

\* The ?page= query parameter as the request carries it: absent, or a string.
PageParams == {"none", "abc", "-1", "0", "1", "2", "3", "4"}

\* The page parameters the listing handlers are driven with.
FeedPageParams == {"none", "abc", "2"}

\* Post and comment ids a request may name; id 3 never has a row.
ReqPostIds == PostIds \cup {3}

ReqCommentIds == CommentIds \cup {3}

\* The requests that carry form data from P: request.POST is empty unless the
\* method is POST.
RequestsOf(P) ==
    [method : Methods, POST : {Empty}] \cup [method : {"POST"}, POST : P]

VARIABLES
    now,         \* timezone.now()
    users,       \* User rows: user -> username
    posts,       \* Post rows: id -> [author, category, pub_date, is_published]
    comments,    \* Comments rows: id -> [author, post, text]
    postSeq,     \* last id given to a Post row
    commentSeq,  \* last id given to a Comments row
    pgCount,     \* SpecPage: size of the result set handed to the paginator
    pgParam,     \* SpecPage: the page parameter of the last get_page call
    pgPage       \* SpecPage: the page the last get_page call returned

vars == <<now, users, posts, comments, postSeq, commentSeq, pgCount, pgParam, pgPage>>

(***************************************************************************)
(* Responses.                                                              *)
(***************************************************************************)
\* raise Http404 / get_object_or_404 finding no row
Http404 == [kind |-> "notfound"]

render(template, context) ==
    [kind |-> "render", template |-> template, context |-> context]

redirect(to, arg) == [kind |-> "redirect", to |-> to, arg |-> arg]

\* @login_required answering a request without a session
redirect_to_login == [kind |-> "redirect", to |-> "login", arg |-> 0]

IsRedirectTo(resp, to, arg) ==
    /\ resp.kind = "redirect"
    /\ resp.to = to
    /\ resp.arg = arg

(***************************************************************************)
(* django.core.paginator.Paginator as the views use it.                    *)
(***************************************************************************)
Min(a, b) == IF a < b THEN a ELSE b

Max(a, b) == IF a > b THEN a ELSE b

\* num_pages counting one page too many when the rows fill the pages exactly
num_pages_off_by_one(object_list, per_page) ==
    Len(object_list) \div per_page + 1

\* Paginator.num_pages with allow_empty_first_page and no orphans
num_pages(object_list, per_page) ==
    LET hits == Max(1, Len(object_list))
    IN  (hits + per_page - 1) \div per_page

\* Paginator.page(number): object_list[bottom:top]
page(object_list, per_page, number) ==
    LET bottom == (number - 1) * per_page
        top    == Min(bottom + per_page, Len(object_list))
    IN  [ number      |-> number,
          num_pages   |-> num_pages(object_list, per_page),
          object_list |-> SubSeq(object_list, bottom + 1, top) ]

\* int(number) of Paginator.validate_number, on the strings it succeeds on
ParseInt ==
    "-1" :> -1 @@ "0" :> 0 @@ "1" :> 1 @@ "2" :> 2 @@ "3" :> 3 @@ "4" :> 4

\* Paginator.get_page(number): PageNotAnInteger gives the first page,
\* EmptyPage (below 1, above num_pages) the last.
get_page(object_list, per_page, number) ==
    IF number \notin DOMAIN ParseInt
    THEN page(object_list, per_page, 1)
    ELSE IF ParseInt[number] < 1
            \/ ParseInt[number] > num_pages(object_list, per_page)
         THEN page(object_list, per_page, num_pages(object_list, per_page))
         ELSE page(object_list, per_page, ParseInt[number])

(***************************************************************************)
(* Queries.                                                                *)
(***************************************************************************)
\* The orders the database may break ties of pub_date in.
TieBreaks == { tb \in [PostIds -> 1..Cardinality(PostIds)] :
                 \A a, b \in PostIds : a # b => tb[a] # tb[b] }

\* Whether row a comes before row b under order_by('-pub_date').
Before(a, b, tb) ==
    \/ posts[a].pub_date > posts[b].pub_date
    \/ posts[a].pub_date = posts[b].pub_date /\ tb[a] < tb[b]

RECURSIVE order_by_pub_date_desc(_, _)
order_by_pub_date_desc(S, tb) ==
    IF S = {} THEN <<>>
    ELSE LET first == CHOOSE a \in S : \A b \in S \ {a} : Before(a, b, tb)
         IN  <<first>> \o order_by_pub_date_desc(S \ {first}, tb)

\* Count('comments') of the annotate() calls
comment_count(id) == Cardinality({c \in DOMAIN comments : comments[c].post = id})

Restrict(f, S) == [x \in S |-> f[x]]

\* What a handler leaves behind: its response and the rows of every table.
Result(resp, u, p, c, ps, cs) ==
    [resp |-> resp, users |-> u, posts |-> p, comments |-> c,
     postSeq |-> ps, commentSeq |-> cs]

\* A handler that writes nothing.
ReadOnly(resp) == Result(resp, users, posts, comments, postSeq, commentSeq)

(***************************************************************************)
(* forms.py                                                                *)
(***************************************************************************)
\* PostForm(data).is_valid(): an unbound form is not valid; the category must
\* be a row of Category.
PostForm_is_valid(data) == data # Empty /\ data.category \in Categories

\* PostForm.save(): every model field but the excluded author.
PostForm_fields(data) ==
    [category |-> data.category, pub_date |-> data.pub_date,
     is_published |-> data.is_published]

\* CommentForm(data).is_valid(): text is required.
CommentForm_is_valid(data) == data # Empty /\ data.text # ""

\* UserForm(data, instance=user).is_valid(): username is required and unique.
UserForm_is_valid(user, data) ==
    /\ data # Empty
    /\ data.username # ""
    /\ \A other \in Users \ {user} : users[other] # data.username

(***************************************************************************)
(* views.py: the listing and detail handlers.                              *)
(***************************************************************************)
\* the index filter without category__is_published
index_queryset_no_category ==
    { id \in DOMAIN posts :
        /\ posts[id].pub_date <= now
        /\ posts[id].is_published }

index_queryset ==
    { id \in DOMAIN posts :
        /\ posts[id].pub_date <= now
        /\ posts[id].is_published
        /\ category_is_published(posts[id].category) }

index_result(user, number, tb) ==
    render("blog/index.html",
           [page_obj |-> get_page(order_by_pub_date_desc(index_queryset, tb),
                                  PAGINATOR_PAGES, number)])

\* post_detail without the check of the category's flag
post_detail_no_category_check(user, id) ==
    IF id \notin DOMAIN posts THEN Http404
    ELSE LET post == posts[id] IN
         IF post.pub_date > now /\ post.author # user THEN Http404
         ELSE IF ~post.is_published /\ post.author # user THEN Http404
         ELSE render("blog/detail.html",
                     [post |-> id,
                      comments |-> {c \in DOMAIN comments : comments[c].post = id}])

post_detail_result(user, id) ==
    IF id \notin DOMAIN posts THEN Http404
    ELSE LET post == posts[id] IN
         IF post.pub_date > now /\ post.author # user THEN Http404
         ELSE IF ~post.is_published /\ post.author # user THEN Http404
         ELSE IF ~category_is_published(post.category) /\ post.author # user
              THEN Http404
         ELSE render("blog/detail.html",
                     [post |-> id,
                      comments |-> {c \in DOMAIN comments : comments[c].post = id}])

category_queryset(category) ==
    { id \in DOMAIN posts :
        /\ posts[id].category = category
        /\ posts[id].is_published
        /\ posts[id].pub_date <= now }

category_posts_result(user, category_slug, number, tb) ==
    IF ~(category_slug \in Categories /\ category_is_published(category_slug))
    THEN Http404
    ELSE render("blog/category.html",
                [category |-> category_slug,
                 page_obj |-> get_page(
                     order_by_pub_date_desc(category_queryset(category_slug), tb),
                     PAGINATOR_PAGES, number)])

profile_queryset(viewer, user) ==
    IF viewer = user
    THEN { id \in DOMAIN posts : posts[id].author = user }
    ELSE { id \in DOMAIN posts :
             /\ posts[id].author = user
             /\ posts[id].is_published
             /\ category_is_published(posts[id].category)
             /\ posts[id].pub_date < now }

profile_result(viewer, username, number, tb) ==
    IF \A u \in Users : users[u] # username THEN Http404
    ELSE LET user == CHOOSE u \in Users : users[u] = username IN
         render("blog/profile.html",
                [profile |-> user,
                 page_obj |-> get_page(
                     order_by_pub_date_desc(profile_queryset(viewer, user), tb),
                     PAGINATOR_PAGES, number)])

(***************************************************************************)
(* views.py: the handlers behind @login_required.                          *)
(***************************************************************************)
\* The Comments rows left when Post row id is deleted: Comments.post cascades.
Comments_on_delete(id) ==
    Restrict(comments, {c \in DOMAIN comments : comments[c].post # id})

\* post.delete()
Post_delete(id) ==
    [posts    |-> Restrict(posts, DOMAIN posts \ {id}),
     comments |-> Comments_on_delete(id)]

create_post_result(user, request) ==
    IF user = Anonymous THEN ReadOnly(redirect_to_login)
    ELSE IF PostForm_is_valid(request.POST)
    THEN LET fields == PostForm_fields(request.POST) @@ [author |-> user]
         IN  Result(redirect("blog:profile", users[user]),
                    users, posts @@ ((postSeq + 1) :> fields), comments,
                    postSeq + 1, commentSeq)
    ELSE ReadOnly(render("blog/create.html", [form |-> request.POST]))

edit_post_result(user, id, request) ==
    IF user = Anonymous THEN ReadOnly(redirect_to_login)
    ELSE IF id \notin DOMAIN posts THEN ReadOnly(Http404)
    ELSE IF user # posts[id].author
    THEN ReadOnly(redirect("blog:post_detail", id))
    ELSE IF PostForm_is_valid(request.POST)
    THEN LET fields == PostForm_fields(request.POST)
                           @@ [author |-> posts[id].author]
         IN  Result(redirect("blog:post_detail", id),
                    users, [posts EXCEPT ![id] = fields], comments,
                    postSeq, commentSeq)
    ELSE ReadOnly(render("blog/create.html", [form |-> request.POST]))

\* delete_post deleting on every request of the author, GET included
delete_post_without_confirmation(user, id, request) ==
    IF user = Anonymous THEN ReadOnly(redirect_to_login)
    ELSE IF id \notin DOMAIN posts THEN ReadOnly(Http404)
    ELSE IF posts[id].author # user
    THEN ReadOnly(redirect("blog:post_detail", id))
    ELSE Result(redirect("blog:profile", users[user]),
                users, Post_delete(id).posts, Post_delete(id).comments,
                postSeq, commentSeq)

\* delete_post removing the Post row alone
delete_post_row_only(user, id, request) ==
    IF user = Anonymous THEN ReadOnly(redirect_to_login)
    ELSE IF id \notin DOMAIN posts THEN ReadOnly(Http404)
    ELSE IF posts[id].author # user
    THEN ReadOnly(redirect("blog:post_detail", id))
    ELSE IF request.method = "GET"
    THEN ReadOnly(render("blog/create.html", [form |-> id]))
    ELSE IF request.method = "POST"
    THEN Result(redirect("blog:profile", users[user]),
                users, Restrict(posts, DOMAIN posts \ {id}), comments,
                postSeq, commentSeq)
    ELSE ReadOnly(redirect("blog:post_detail", id))

delete_post_result(user, id, request) ==
    IF user = Anonymous THEN ReadOnly(redirect_to_login)
    ELSE IF id \notin DOMAIN posts THEN ReadOnly(Http404)
    ELSE IF posts[id].author # user
    THEN ReadOnly(redirect("blog:post_detail", id))
    ELSE IF request.method = "GET"
    THEN ReadOnly(render("blog/create.html", [form |-> id]))
    ELSE IF request.method = "POST"
    THEN Result(redirect("blog:profile", users[user]),
                users, Post_delete(id).posts, Post_delete(id).comments,
                postSeq, commentSeq)
    ELSE ReadOnly(redirect("blog:post_detail", id))

\* add_comment with a CommentForm that also binds author and post
add_comment_binding_payload(user, id, request) ==
    IF user = Anonymous THEN ReadOnly(redirect_to_login)
    ELSE IF id \notin DOMAIN posts THEN ReadOnly(Http404)
    ELSE IF CommentForm_is_valid(request.POST)
    THEN LET data == request.POST
             text == [text   |-> data.text,
                      author |-> IF "author" \in DOMAIN data
                                 THEN data.author ELSE user,
                      post   |-> IF "post" \in DOMAIN data /\ data.post \in DOMAIN posts
                                 THEN data.post ELSE id]
         IN  Result(redirect("blog:post_detail", id),
                    users, posts, comments @@ ((commentSeq + 1) :> text),
                    postSeq, commentSeq + 1)
    ELSE ReadOnly(redirect("blog:post_detail", id))

add_comment_result(user, id, request) ==
    IF user = Anonymous THEN ReadOnly(redirect_to_login)
    ELSE IF id \notin DOMAIN posts THEN ReadOnly(Http404)
    ELSE IF CommentForm_is_valid(request.POST)
    THEN LET text == [text |-> request.POST.text, author |-> user, post |-> id]
         IN  Result(redirect("blog:post_detail", id),
                    users, posts, comments @@ ((commentSeq + 1) :> text),
                    postSeq, commentSeq + 1)
    ELSE ReadOnly(redirect("blog:post_detail", id))

\* edit_comment without the check of the comment's author
edit_comment_no_author_check(user, id, comment_id, request) ==
    IF user = Anonymous THEN ReadOnly(redirect_to_login)
    ELSE IF comment_id \notin DOMAIN comments THEN ReadOnly(Http404)
    ELSE IF CommentForm_is_valid(request.POST)
    THEN Result(redirect("blog:post_detail", id),
                users, posts,
                [comments EXCEPT ![comment_id].text = request.POST.text],
                postSeq, commentSeq)
    ELSE ReadOnly(render("blog/comment.html",
                         [comment |-> comment_id, form |-> request.POST]))

edit_comment_result(user, id, comment_id, request) ==
    IF user = Anonymous THEN ReadOnly(redirect_to_login)
    ELSE IF comment_id \notin DOMAIN comments THEN ReadOnly(Http404)
    ELSE IF user # comments[comment_id].author
    THEN ReadOnly(redirect("blog:post_detail", id))
    ELSE IF CommentForm_is_valid(request.POST)
    THEN Result(redirect("blog:post_detail", id),
                users, posts,
                [comments EXCEPT ![comment_id].text = request.POST.text],
                postSeq, commentSeq)
    ELSE ReadOnly(render("blog/comment.html",
                         [comment |-> comment_id, form |-> request.POST]))

delete_comment_result(user, id, slug, request) ==
    IF user = Anonymous THEN ReadOnly(redirect_to_login)
    ELSE IF slug \notin DOMAIN comments THEN ReadOnly(Http404)
    ELSE IF user # comments[slug].author
    THEN ReadOnly(redirect("blog:post_detail", slug))
    ELSE IF request.method = "POST"
    THEN Result(redirect("blog:post_detail", id),
                users, posts, Restrict(comments, DOMAIN comments \ {slug}),
                postSeq, commentSeq)
    ELSE IF request.method = "GET"
    THEN ReadOnly(render("blog/comment.html", [comment |-> slug]))
    ELSE ReadOnly(redirect("blog:post_detail", id))

edit_profile_result(user, request) ==
    IF user = Anonymous THEN ReadOnly(redirect_to_login)
    ELSE IF UserForm_is_valid(user, request.POST)
    THEN Result(redirect("blog:profile", request.POST.username),
                [users EXCEPT ![user] = request.POST.username],
                posts, comments, postSeq, commentSeq)
    ELSE ReadOnly(render("blog/user.html", [form |-> request.POST]))

(***************************************************************************)
(* The state machine: one action per handler.                              *)
(***************************************************************************)
\* The store after a handler returned r.
Commit(r) ==
    /\ users' = r.users
    /\ posts' = r.posts
    /\ comments' = r.comments
    /\ postSeq' = r.postSeq
    /\ commentSeq' = r.commentSeq
    /\ UNCHANGED <<now, pgCount, pgParam, pgPage>>

Init ==
    /\ now = 1
    /\ users = [u \in Users |-> IF u = "u1" THEN "ann" ELSE "bob"]
    /\ posts = <<>>
    /\ comments = <<>>
    /\ postSeq = 0
    /\ commentSeq = 0
    /\ pgCount = 0
    /\ pgParam = "none"
    /\ pgPage = page(<<>>, PAGINATOR_PAGES, 1)

\* Time passes.
Tick ==
    /\ now < MaxTime
    /\ now' = now + 1
    /\ UNCHANGED <<users, posts, comments, postSeq, commentSeq,
                   pgCount, pgParam, pgPage>>

index ==
    \E number \in FeedPageParams, tb \in TieBreaks :
        Commit(ReadOnly(index_result(Anonymous, number, tb)))

post_detail ==
    \E user \in Viewers, id \in ReqPostIds :
        Commit(ReadOnly(post_detail_result(user, id)))

category_posts ==
    \E slug \in Slugs, number \in FeedPageParams, tb \in TieBreaks :
        Commit(ReadOnly(category_posts_result(Anonymous, slug, number, tb)))

profile ==
    \E viewer \in Viewers, username \in ReqNames, number \in FeedPageParams,
       tb \in TieBreaks :
        Commit(ReadOnly(profile_result(viewer, username, number, tb)))

\* @login_required turning away a request without a session, whatever the
\* handler and its arguments.
login_required == Commit(ReadOnly(redirect_to_login))

create_post ==
    \E user \in Users, request \in RequestsOf(PostPayloads) :
        /\ postSeq + 1 \in PostIds \/ ~PostForm_is_valid(request.POST)
        /\ Commit(create_post_result(user, request))

edit_post ==
    \E user \in Users, id \in ReqPostIds, request \in RequestsOf(PostPayloads) :
        Commit(edit_post_result(user, id, request))

delete_post ==
    \E user \in Users, id \in ReqPostIds, request \in RequestsOf({}) :
        Commit(delete_post_result(user, id, request))

add_comment ==
    \E user \in Users, id \in ReqPostIds,
       request \in RequestsOf(CommentPayloads) :
        /\ commentSeq + 1 \in CommentIds \/ ~CommentForm_is_valid(request.POST)
        /\ Commit(add_comment_result(user, id, request))

edit_comment ==
    \E user \in Users, id \in ReqPostIds, comment_id \in ReqCommentIds,
       request \in RequestsOf(CommentPayloads) :
        Commit(edit_comment_result(user, id, comment_id, request))

delete_comment ==
    \E user \in Users, id \in ReqPostIds, slug \in ReqCommentIds,
       request \in RequestsOf({}) :
        Commit(delete_comment_result(user, id, slug, request))

edit_profile ==
    \E user \in Users, request \in RequestsOf(UserPayloads) :
        Commit(edit_profile_result(user, request))

Next ==
    \/ Tick
    \/ index
    \/ post_detail
    \/ category_posts
    \/ profile
    \/ login_required
    \/ create_post
    \/ edit_post
    \/ delete_post
    \/ add_comment
    \/ edit_comment
    \/ delete_comment
    \/ edit_profile

Spec == Init /\ [][Next]_vars

(***************************************************************************)
(* The paginator on result sets of every size up to MaxCount.              *)
(***************************************************************************)
\* An ordered result set of n rows.
ObjectList(n) == [i \in 1..n |-> i]

InitPage ==
    /\ now = 1
    /\ users = [u \in Users |-> IF u = "u1" THEN "ann" ELSE "bob"]
    /\ posts = <<>>
    /\ comments = <<>>
    /\ postSeq = 0
    /\ commentSeq = 0
    /\ pgCount \in 0..MaxCount
    /\ pgParam = "none"
    /\ pgPage = get_page(ObjectList(pgCount), PAGINATOR_PAGES, "none")

\* paginator.get_page(request.GET.get('page')) of index, category_posts and
\* profile.
Paginate ==
    \E number \in PageParams :
        /\ pgParam' = number
        /\ pgPage' = get_page(ObjectList(pgCount), PAGINATOR_PAGES, number)
        /\ UNCHANGED <<now, users, posts, comments, postSeq, commentSeq, pgCount>>

NextPage == Paginate

SpecPage == InitPage /\ [][NextPage]_vars

(***************************************************************************)
(* Properties.                                                             *)
(***************************************************************************)
Range(seq) == {seq[i] : i \in 1..Len(seq)}

\* The visibility predicate of the specification.
Visible(id) ==
    /\ posts[id].is_published
    /\ category_is_published(posts[id].category)
    /\ posts[id].pub_date <= now

SortedByPubDateDesc(seq) ==
    \A i, j \in 1..Len(seq) :
        i < j => posts[seq[i]].pub_date >= posts[seq[j]].pub_date

NoRepeats(seq) == \A i, j \in 1..Len(seq) : i # j => seq[i] # seq[j]

\* The handler wrote nothing.
SameStore(r) ==
    /\ r.users = users
    /\ r.posts = posts
    /\ r.comments = comments
    /\ r.postSeq = postSeq
    /\ r.commentSeq = commentSeq

PostRequests == RequestsOf(PostPayloads)

CommentRequests == RequestsOf(CommentPayloads)

DeleteRequests == RequestsOf({})

\* C1: post_detail answers not-found for a post that is unpublished, or whose
\* category is unpublished, or whose pub_date is later than now, when the
\* viewer is not the author; the author, and every viewer of a post with none
\* of the three, gets the post rendered.
C1_PostDetailGated ==
    \A id \in DOMAIN posts, viewer \in Viewers :
        LET r == post_detail_result(viewer, id) IN
        IF ~Visible(id) /\ viewer # posts[id].author
        THEN r.kind = "notfound"
        ELSE /\ r.kind = "render"
             /\ r.template = "blog/detail.html"
             /\ r.context.post = id

\* C1 witness: a post hidden by its category alone, refused to the other
\* user and to the anonymous viewer and rendered for its author.
C1_Witness ==
    \E id \in DOMAIN posts :
        /\ posts[id].is_published
        /\ posts[id].pub_date <= now
        /\ ~category_is_published(posts[id].category)
        /\ post_detail_result(Anonymous, id).kind = "notfound"
        /\ \E u \in Users \ {posts[id].author} :
               post_detail_result(u, id).kind = "notfound"
        /\ post_detail_result(posts[id].author, id).kind = "render"

\* C2: the profile of U lists, for a viewer other than U, exactly the posts
\* of U that are published, in a published category and with pub_date <= now
\* (a post whose pub_date equals now included); for U, all of U's posts.
C2_ProfileListsExactlyVisible ==
    \A U \in Users, viewer \in Viewers, number \in PageParams, tb \in TieBreaks :
        LET r == profile_result(viewer, users[U], number, tb) IN
        /\ r.kind = "render"
        /\ Range(r.context.page_obj.object_list) =
             IF viewer = U
             THEN {id \in DOMAIN posts : posts[id].author = U}
             ELSE {id \in DOMAIN posts : posts[id].author = U /\ Visible(id)}

\* C8: index lists exactly the visible posts, for every viewer;
\* category_posts lists exactly the published posts of the category with
\* pub_date <= now when the slug names a published category, and answers
\* not-found otherwise; both lists are in descending order of pub_date.
C8_FeedsListExactlyVisible ==
    \A viewer \in Viewers, number \in FeedPageParams, tb \in TieBreaks :
        /\ LET r == index_result(viewer, number, tb) IN
           /\ r.kind = "render"
           /\ Range(r.context.page_obj.object_list) =
                {id \in DOMAIN posts : Visible(id)}
           /\ NoRepeats(r.context.page_obj.object_list)
           /\ SortedByPubDateDesc(r.context.page_obj.object_list)
        /\ \A S \in Slugs :
             LET r == category_posts_result(viewer, S, number, tb) IN
             IF S \in Categories /\ category_is_published(S)
             THEN /\ r.kind = "render"
                  /\ Range(r.context.page_obj.object_list) =
                       {id \in DOMAIN posts :
                          /\ posts[id].category = S
                          /\ posts[id].is_published
                          /\ posts[id].pub_date <= now}
                  /\ NoRepeats(r.context.page_obj.object_list)
                  /\ SortedByPubDateDesc(r.context.page_obj.object_list)
             ELSE r.kind = "notfound"

\* C8 witness: two visible posts of different dates, the later one first in
\* index and in its category's list, written by the author who is viewing.
C8_Witness ==
    /\ DOMAIN posts = {1, 2}
    /\ Visible(1) /\ Visible(2)
    /\ posts[1].pub_date < posts[2].pub_date
    /\ \A tb \in TieBreaks :
          /\ index_result(posts[1].author, "none", tb).context.page_obj.object_list
               = <<2, 1>>
          /\ category_posts_result(posts[1].author, "travel", "none", tb)
               .context.page_obj.object_list = <<2, 1>>
    /\ category_posts_result(Anonymous, "drafts", "none",
                             CHOOSE tb \in TieBreaks : TRUE).kind = "notfound"

\* C3: edit_post, delete_post, edit_comment and delete_comment requested by
\* an authenticated user who is not the author of the post or comment answer
\* with a redirect to the detail view of the post (of the post the comment
\* belongs to), and write nothing, whatever the method and the data.  The
\* comment handlers are asked under the id of the comment's own post.
C3_NonAuthorRedirectedToRecord ==
    \A user \in Users :
        /\ \A id \in DOMAIN posts :
              posts[id].author # user =>
                /\ \A request \in PostRequests :
                      LET r == edit_post_result(user, id, request) IN
                      /\ IsRedirectTo(r.resp, "blog:post_detail", id)
                      /\ SameStore(r)
                /\ \A request \in DeleteRequests :
                      LET r == delete_post_result(user, id, request) IN
                      /\ IsRedirectTo(r.resp, "blog:post_detail", id)
                      /\ SameStore(r)
        /\ \A c \in DOMAIN comments :
              comments[c].author # user =>
                /\ \A request \in CommentRequests :
                      LET r == edit_comment_result(user, comments[c].post, c,
                                                   request) IN
                      /\ IsRedirectTo(r.resp, "blog:post_detail",
                                      comments[c].post)
                      /\ SameStore(r)
                /\ \A request \in DeleteRequests :
                      LET r == delete_comment_result(user, comments[c].post, c,
                                                     request) IN
                      /\ IsRedirectTo(r.resp, "blog:post_detail",
                                      comments[c].post)
                      /\ SameStore(r)

PostTouched(r, id) == id \notin DOMAIN r.posts \/ r.posts[id] # posts[id]

CommentTouched(r, c) ==
    c \notin DOMAIN r.comments \/ r.comments[c] # comments[c]

\* The author of a post, and the author and post of a comment, stay.
KeysKept(r) ==
    /\ \A id \in DOMAIN posts \cap DOMAIN r.posts :
          r.posts[id].author = posts[id].author
    /\ \A c \in DOMAIN comments \cap DOMAIN r.comments :
          /\ r.comments[c].author = comments[c].author
          /\ r.comments[c].post = comments[c].post

\* P(user, r) for every request of a handler behind @login_required, with
\* the user who sends it and what the handler leaves behind.
ForAllWrites(P(_, _)) ==
    \A user \in Viewers :
        /\ \A q \in PostRequests : P(user, create_post_result(user, q))
        /\ \A id \in ReqPostIds, q \in PostRequests :
              P(user, edit_post_result(user, id, q))
        /\ \A id \in ReqPostIds, q \in DeleteRequests :
              P(user, delete_post_result(user, id, q))
        /\ \A id \in ReqPostIds, q \in CommentRequests :
              P(user, add_comment_result(user, id, q))
        /\ \A id \in ReqPostIds, c \in ReqCommentIds, q \in CommentRequests :
              P(user, edit_comment_result(user, id, c, q))
        /\ \A id \in ReqPostIds, c \in ReqCommentIds, q \in DeleteRequests :
              P(user, delete_comment_result(user, id, c, q))
        /\ \A q \in RequestsOf(UserPayloads) :
              P(user, edit_profile_result(user, q))

OnlyAuthorTouches(user, r) ==
    /\ \A id \in DOMAIN posts :
          PostTouched(r, id) => posts[id].author = user
    /\ \A c \in DOMAIN comments :
          CommentTouched(r, c) => comments[c].author = user
    /\ KeysKept(r)

OnlyAuthorOrPostOwnerTouches(user, r) ==
    /\ \A id \in DOMAIN posts :
          PostTouched(r, id) => posts[id].author = user
    /\ \A c \in DOMAIN comments :
          /\ (c \in DOMAIN r.comments /\ r.comments[c] # comments[c])
                => comments[c].author = user
          /\ c \notin DOMAIN r.comments =>
                \/ comments[c].author = user
                \/ /\ posts[comments[c].post].author = user
                   /\ comments[c].post \notin DOMAIN r.posts
    /\ KeysKept(r)

\* C4 as stated: every request that changes or removes an existing Post or
\* Comment is a request of that record's author; authors of posts and
\* authors and posts of comments never change.
C4_OnlyAuthorTouches == ForAllWrites(OnlyAuthorTouches)

\* C4 amended: every request that changes or removes an existing Post, or
\* changes an existing Comment, is a request of that record's author; a
\* request that removes a Comment is a request of the comment's author, or
\* one of the author of the comment's post that removes this post as well;
\* authors of posts and authors and posts of comments never change.
C4_OnlyAuthorOrPostOwnerTouches == ForAllWrites(OnlyAuthorOrPostOwnerTouches)

\* C4 witness: a post carrying a comment of another user, which the post's
\* author removes with the post and whose text its own author can change.
C4_Witness ==
    \E c \in DOMAIN comments :
        LET id == comments[c].post
            owner == posts[id].author
            r == delete_post_result(owner, id, [method |-> "POST", POST |-> Empty])
            e == edit_comment_result(comments[c].author, id, c,
                     [method |-> "POST", POST |-> [text |-> "second"]])
        IN  /\ comments[c].author # owner
            /\ comments[c].text = "first"
            /\ c \notin DOMAIN r.comments
            /\ e.comments[c].text = "second"

\* C5: a POST to delete_post by the post's author removes the post and
\* every comment on it and leaves the comments of the other posts as they
\* were; every stored comment refers to a stored post.
C5_DeletePostCascades ==
    /\ \A c \in DOMAIN comments : comments[c].post \in DOMAIN posts
    /\ \A id \in DOMAIN posts :
          LET r == delete_post_result(posts[id].author, id,
                                      [method |-> "POST", POST |-> Empty])
          IN  /\ DOMAIN r.posts = DOMAIN posts \ {id}
              /\ \A p \in DOMAIN r.posts : r.posts[p] = posts[p]
              /\ \A c \in DOMAIN comments :
                    IF comments[c].post = id
                    THEN c \notin DOMAIN r.comments
                    ELSE c \in DOMAIN r.comments /\ r.comments[c] = comments[c]
              /\ \A c \in DOMAIN r.comments :
                    c \in DOMAIN comments /\ r.comments[c].post \in DOMAIN r.posts

\* C5 witness: two posts with a comment each; deleting the first removes its
\* comment and keeps the other.
C5_Witness ==
    /\ DOMAIN posts = {1, 2}
    /\ DOMAIN comments = {1, 2}
    /\ comments[1].post = 1
    /\ comments[2].post = 2
    /\ comments[1].author # posts[1].author
    /\ LET r == delete_post_result(posts[1].author, 1,
                                   [method |-> "POST", POST |-> Empty])
       IN  DOMAIN r.posts = {2} /\ DOMAIN r.comments = {2}

\* C6: add_comment by an authenticated user on an existing post with valid
\* text adds exactly one comment, written by that user on that post whatever
\* author or post the payload names, and leaves every stored comment and
\* post as it was; with invalid or no text it adds nothing; both cases
\* redirect to the post's detail view.
C6_AddCommentBindsContext ==
    \A user \in Users, id \in DOMAIN posts, request \in CommentRequests :
        LET r == add_comment_result(user, id, request)
            added == DOMAIN r.comments \ DOMAIN comments
            count(cs, p) == Cardinality({c \in DOMAIN cs : cs[c].post = p})
        IN  /\ IsRedirectTo(r.resp, "blog:post_detail", id)
            /\ r.posts = posts
            /\ r.users = users
            /\ IF request.POST # Empty /\ request.POST.text # ""
               THEN /\ Cardinality(added) = 1
                    /\ \A c \in added :
                          /\ r.comments[c].author = user
                          /\ r.comments[c].post = id
                          /\ r.comments[c].text = request.POST.text
                    /\ \A c \in DOMAIN comments :
                          c \in DOMAIN r.comments /\ r.comments[c] = comments[c]
                    /\ count(r.comments, id) = comment_count(id) + 1
                    /\ \A p \in DOMAIN posts \ {id} :
                          count(r.comments, p) = comment_count(p)
               ELSE r.comments = comments /\ r.commentSeq = commentSeq

\* C6 witness: a stored comment, and a payload naming another author and
\* another post than the ones of the request, which adds a second comment.
C6_Witness ==
    /\ DOMAIN posts = {1, 2}
    /\ DOMAIN comments = {1}
    /\ comments[1].post = 2
    /\ LET r == add_comment_result("u1", 2,
                   [method |-> "POST",
                    POST |-> [text |-> "second", author |-> "u2", post |-> 1]])
       IN  /\ DOMAIN r.comments = {1, 2}
           /\ r.comments[2] = [text |-> "second", author |-> "u1", post |-> 2]

\* C7: a viewer who is not the author gets, for a post that fails the
\* visibility predicate, the response a post id without a row gets
\* (not-found), from post_detail and from edit_post, delete_post and
\* add_comment.
C7_HiddenLooksAbsent ==
    \A id \in DOMAIN posts, viewer \in Viewers :
        (~Visible(id) /\ viewer # posts[id].author) =>
          \A absent \in ReqPostIds \ DOMAIN posts :
            /\ post_detail_result(viewer, id).kind
                 = post_detail_result(viewer, absent).kind
            /\ \A q \in PostRequests :
                  edit_post_result(viewer, id, q).resp.kind
                    = edit_post_result(viewer, absent, q).resp.kind
            /\ \A q \in DeleteRequests :
                  delete_post_result(viewer, id, q).resp.kind
                    = delete_post_result(viewer, absent, q).resp.kind
            /\ \A q \in CommentRequests :
                  add_comment_result(viewer, id, q).resp.kind
                    = add_comment_result(viewer, absent, q).resp.kind

\* C9: delete_post and delete_comment requested by the record's author: a GET
\* renders the confirmation and writes nothing; a POST removes the record
\* and redirects, to the author's profile for a post and to the detail view
\* of the post the request names for a comment; any other method removes
\* nothing and redirects to the detail view of that post.
C9_TwoStepDeletion ==
    /\ \A id \in DOMAIN posts :
          LET author == posts[id].author
              get   == delete_post_result(author, id, [method |-> "GET", POST |-> Empty])
              post  == delete_post_result(author, id, [method |-> "POST", POST |-> Empty])
              other == delete_post_result(author, id, [method |-> "PUT", POST |-> Empty])
          IN  /\ get.resp.kind = "render" /\ SameStore(get)
              /\ id \notin DOMAIN post.posts
              /\ IsRedirectTo(post.resp, "blog:profile", users[author])
              /\ IsRedirectTo(other.resp, "blog:post_detail", id)
              /\ SameStore(other)
    /\ \A c \in DOMAIN comments, id \in ReqPostIds :
          LET author == comments[c].author
              get   == delete_comment_result(author, id, c, [method |-> "GET", POST |-> Empty])
              post  == delete_comment_result(author, id, c, [method |-> "POST", POST |-> Empty])
              other == delete_comment_result(author, id, c, [method |-> "PUT", POST |-> Empty])
          IN  /\ get.resp.kind = "render" /\ SameStore(get)
              /\ DOMAIN post.comments = DOMAIN comments \ {c}
              /\ \A d \in DOMAIN post.comments : post.comments[d] = comments[d]
              /\ post.posts = posts
              /\ IsRedirectTo(post.resp, "blog:post_detail", id)
              /\ IsRedirectTo(other.resp, "blog:post_detail", id)
              /\ SameStore(other)

\* C9 witness: a post with a comment, both asked to be deleted by their
\* authors with GET (kept) and with POST (removed).
C9_Witness ==
    \E c \in DOMAIN comments :
        LET id == comments[c].post IN
        /\ delete_post_result(posts[id].author, id,
              [method |-> "GET", POST |-> Empty]).posts = posts
        /\ id \notin DOMAIN delete_post_result(posts[id].author, id,
              [method |-> "POST", POST |-> Empty]).posts
        /\ delete_comment_result(comments[c].author, id, c,
              [method |-> "GET", POST |-> Empty]).comments = comments
        /\ c \notin DOMAIN delete_comment_result(comments[c].author, id, c,
              [method |-> "POST", POST |-> Empty]).comments

\* ceil(n / d)
CeilDiv(n, d) == IF n % d = 0 THEN n \div d ELSE n \div d + 1

RECURSIVE PagesInOrder(_, _, _)
\* The rows of pages k, k + 1, ..., last of object_list, one after the other.
PagesInOrder(object_list, k, last) ==
    IF k > last THEN <<>>
    ELSE page(object_list, PAGINATOR_PAGES, k).object_list
           \o PagesInOrder(object_list, k + 1, last)

\* C10: a page holds at most 10 rows; a result set of n rows has
\* max(1, ceil(n / 10)) pages, which taken in order list every row once, in
\* the order of the result set; a page parameter that is absent, not a
\* number or out of range gives the first or the last page.
C10_Pagination ==
    LET rows == ObjectList(pgCount)
        last == Max(1, CeilDiv(pgCount, 10))
    IN  /\ Len(pgPage.object_list) <= 10
        /\ pgPage.num_pages = last
        /\ pgPage.number \in 1..last
        /\ pgPage.object_list =
             SubSeq(rows, 10 * (pgPage.number - 1) + 1,
                    Min(10 * pgPage.number, pgCount))
        /\ PagesInOrder(rows, 1, pgPage.num_pages) = rows
        /\ pgParam \in {"none", "abc"} => pgPage.number = 1
        /\ pgParam \in {"-1", "0"} => pgPage.number = last
        /\ (pgParam \in DOMAIN ParseInt /\ ParseInt[pgParam] > last)
              => pgPage.number = last
        /\ (pgParam \in DOMAIN ParseInt /\ ParseInt[pgParam] \in 1..last)
              => pgPage.number = ParseInt[pgParam]

\* C10 witness: 20 rows fill two pages exactly, and a page parameter beyond
\* them gives the second.
C10_Witness ==
    /\ pgCount = 20
    /\ pgParam = "4"
    /\ pgPage.number = 2
    /\ Len(pgPage.object_list) = 10

====
